---------------------------- MODULE Spec2Model ----------------------------
(***************************************************************************)
(* Model of chap4/mav_dynamics.py (class MavDynamics and the scenario      *)
(* driver under __main__).                                                 *)
(*                                                                         *)
(* Numbers.  A float64 is modelled as a fixed-point number: the integer x  *)
(* stands for x / SCALE.  Every arithmetic result is rounded to the grid   *)
(* and a result outside [-LIMIT, LIMIT], a division by zero, a square root *)
(* of a negative number or any operation on a non-finite operand gives the *)
(* single non-finite value NaN (inf and nan of IEEE-754 are not told       *)
(* apart: the program only ever multiplies an inf by a zero dynamic        *)
(* pressure or adds it to other terms, which leaves it non-finite).        *)
(*                                                                         *)
(* Arrays.  numpy arrays are objects of a heap, held by reference, so that *)
(* "self._state = new_state" and the in-place "self._state += ..." keep    *)
(* the sharing they have in Python.                                        *)
(***************************************************************************)
EXTENDS Integers, Sequences, FiniteSets, TLC

----------------------------------------------------------------------------
(* Fixed-point arithmetic standing for IEEE-754 doubles.                   *)

SCALE == 10 ^ 3
LIMIT == 1000 * SCALE
NaN == 2 * (10 ^ 9)

IsNaN(x) == x = NaN
Finite(x) == x # NaN

Fix(x) == IF x > LIMIT \/ x < -LIMIT THEN NaN ELSE x

Neg(a) == IF IsNaN(a) THEN NaN ELSE -a
Add(a, b) == IF IsNaN(a) \/ IsNaN(b) THEN NaN ELSE Fix(a + b)
Sub(a, b) == IF IsNaN(a) \/ IsNaN(b) THEN NaN ELSE Fix(a - b)

\* a * b, rounded to nearest; a is split so that no product leaves 32 bits
Mul(a, b) ==
    IF IsNaN(a) \/ IsNaN(b) THEN NaN
    ELSE Fix((a \div SCALE) * b + ((a % SCALE) * b + SCALE \div 2) \div SCALE)

\* a / b, rounded to nearest; x/0 is non-finite
Div(a, b) ==
    IF IsNaN(a) \/ IsNaN(b) \/ b = 0 THEN NaN
    ELSE IF b > 0 THEN Fix((a * SCALE + b \div 2) \div b)
    ELSE Fix(((-a) * SCALE + (-b) \div 2) \div (-b))

Abs(a) == IF IsNaN(a) THEN NaN ELSE IF a < 0 THEN -a ELSE a

\* a literal n / d
Lit(n, d) == (n * SCALE) \div d

RECURSIVE ISqrtIn(_, _, _)
ISqrtIn(n, lo, hi) ==
    IF hi - lo <= 1 THEN lo
    ELSE LET mid == (lo + hi) \div 2
         IN IF mid * mid <= n THEN ISqrtIn(n, mid, hi) ELSE ISqrtIn(n, lo, mid)

\* integer square root of 0 <= n <= 10^9, rounded to nearest
ISqrt(n) ==
    LET r == ISqrtIn(n, 0, 31623)
    IN IF (r + 1) * (r + 1) - n <= n - r * r THEN r + 1 ELSE r

\* np.sqrt
Sqrt(x) == IF IsNaN(x) \/ x < 0 THEN NaN ELSE ISqrt(x * SCALE)

PI == Lit(31416, 10000)
HALF_PI == Lit(15708, 10000)

\* np.sign
Sign(x) == IF IsNaN(x) THEN NaN ELSE IF x > 0 THEN SCALE ELSE IF x < 0 THEN -SCALE ELSE 0

\* x^n for a small natural n
RECURSIVE Pow(_, _)
Pow(x, n) == IF n = 0 THEN SCALE ELSE Mul(x, Pow(x, n - 1))

\* np.sin on [-pi, pi] by its Taylor polynomial about 0 (folded to [-pi/2, pi/2])
SinSeries(x) ==
    LET x2 == Mul(x, x)
        t3 == Div(Mul(x, x2), 6 * SCALE)
        t5 == Div(Mul(t3, x2), 20 * SCALE)
        t7 == Div(Mul(t5, x2), 42 * SCALE)
        t9 == Div(Mul(t7, x2), 72 * SCALE)
    IN Add(Sub(Add(Sub(x, t3), t5), t7), t9)

Sin(x) ==
    IF IsNaN(x) THEN NaN
    ELSE SinSeries(IF x > HALF_PI THEN PI - x
                   ELSE IF x < -HALF_PI THEN -PI - x
                   ELSE x)

\* np.cos
Cos(x) == IF IsNaN(x) THEN NaN ELSE Sin(Fix(HALF_PI - Abs(x)))

\* exp on [0, 1) by its Taylor polynomial
ExpFrac(f) ==
    LET t2 == Div(Mul(f, f), 2 * SCALE)
        t3 == Div(Mul(t2, f), 3 * SCALE)
        t4 == Div(Mul(t3, f), 4 * SCALE)
        t5 == Div(Mul(t4, f), 5 * SCALE)
        t6 == Div(Mul(t5, f), 6 * SCALE)
    IN Add(Add(Add(Add(Add(Add(SCALE, f), t2), t3), t4), t5), t6)

EULER_E == Lit(27183, 10000)

\* np.exp: e^n * exp(f) for x = n + f >= 0, and 1 / exp(-x) for x < 0
ExpPos(x) == Mul(Pow(EULER_E, x \div SCALE), ExpFrac(x % SCALE))
ExpSigned(x, e) == IF x >= 0 THEN e ELSE Div(SCALE, e)
Exp(x) == IF IsNaN(x) THEN NaN ELSE ExpSigned(x, ExpPos(Abs(x)))

\* arctan on [0, 1]: two half-angle reductions, then the Taylor polynomial
AtanHalve(x) == Div(x, Add(SCALE, Sqrt(Add(SCALE, Mul(x, x)))))
AtanSeries(y) ==
    LET y2 == Mul(y, y)
        y3 == Mul(y, y2)
        y5 == Mul(y3, y2)
    IN Mul(4 * SCALE, Add(Sub(y, Div(y3, 3 * SCALE)), Div(y5, 5 * SCALE)))
AtanUnit(x) == AtanSeries(AtanHalve(AtanHalve(x)))

\* arctan(x) from t = arctan(min(|x|, 1/|x|))
AtanFold(x, t) ==
    IF x < -SCALE THEN t - HALF_PI
    ELSE IF x < 0 THEN -t
    ELSE IF x <= SCALE THEN t
    ELSE HALF_PI - t

\* np.arctan
ArcTan(x) ==
    IF IsNaN(x) THEN NaN
    ELSE AtanFold(x, AtanUnit(IF Abs(x) <= SCALE THEN Abs(x) ELSE Div(SCALE, Abs(x))))

\* np.arcsin: nan outside [-1, 1]
ArcSin(x) ==
    IF IsNaN(x) \/ x > SCALE \/ x < -SCALE THEN NaN
    ELSE IF x = SCALE THEN HALF_PI
    ELSE IF x = -SCALE THEN -HALF_PI
    ELSE ArcTan(Div(x, Sqrt(Sub(SCALE, Mul(x, x)))))

\* np.arctan2
Atan2Fold(y, x, t) ==
    IF x > 0 THEN t
    ELSE IF x < 0 THEN (IF y >= 0 THEN Add(t, PI) ELSE Sub(t, PI))
    ELSE IF y > 0 THEN HALF_PI
    ELSE IF y < 0 THEN -HALF_PI
    ELSE 0
ArcTan2(y, x) ==
    IF IsNaN(y) \/ IsNaN(x) THEN NaN ELSE Atan2Fold(y, x, ArcTan(Div(y, x)))


----------------------------------------------------------------------------
(* Vectors and matrices (numpy arrays by value).  A vector is a tuple;     *)
(* Python's index k is the tuple's index k + 1.                            *)

VecAdd(a, b) == [j \in 1..Len(a) |-> Add(a[j], b[j])]
VecSub(a, b) == [j \in 1..Len(a) |-> Sub(a[j], b[j])]
VecScale(s, a) == [j \in 1..Len(a) |-> Mul(s, a[j])]
Dot3(r, v) == Add(Add(Mul(r[1], v[1]), Mul(r[2], v[2])), Mul(r[3], v[3]))
\* R @ v
MatVec(R, v) == <<Dot3(R[1], v), Dot3(R[2], v), Dot3(R[3], v)>>
Transpose(R) == [i \in 1..3 |-> [j \in 1..3 |-> R[j][i]]]
\* np.linalg.norm of a 3-vector
Norm3(v) == Sqrt(Add(Add(Mul(v[1], v[1]), Mul(v[2], v[2])), Mul(v[3], v[3])))
Zero3 == <<0, 0, 0>>
VecFinite(a) == \A j \in 1..Len(a) : Finite(a[j])

----------------------------------------------------------------------------
(* External collaborators: the parameter table and the rotation tools.     *)

\* parameters.aerosonde_parameters: values chosen to be representable on
\* the fixed-point grid; no property below depends on a particular value
MAV == [
    north0 |-> 0, east0 |-> 0, down0 |-> -100 * SCALE,
    u0 |-> 10 * SCALE, v0 |-> 0, w0 |-> 0,
    e0 |-> SCALE, e1 |-> 0, e2 |-> 0, e3 |-> 0,
    p0 |-> 0, q0 |-> 0, r0 |-> 0,
    mass |-> 11 * SCALE, gravity |-> Lit(981, 100), Jy |-> Lit(1135, 1000),
    gamma1 |-> Lit(121, 1000), gamma2 |-> Lit(775, 1000),
    gamma3 |-> Lit(1225, 1000), gamma4 |-> Lit(84, 1000),
    gamma5 |-> Lit(823, 1000), gamma6 |-> Lit(106, 1000),
    gamma7 |-> Lit(-168, 1000), gamma8 |-> Lit(574, 1000),
    S_wing |-> Lit(55, 100), b |-> Lit(2896, 1000), c |-> Lit(190, 1000),
    rho |-> Lit(1268, 1000), e |-> Lit(9, 10), AR |-> Lit(1524, 100),
    M |-> 2 * SCALE, alpha0 |-> Lit(471, 1000),
    C_L_0 |-> Lit(23, 100), C_L_alpha |-> Lit(561, 100),
    C_L_q |-> Lit(795, 100), C_L_delta_e |-> Lit(13, 100),
    C_D_p |-> Lit(43, 1000), C_D_q |-> 0, C_D_delta_e |-> Lit(135, 10000),
    C_m_0 |-> Lit(135, 10000), C_m_alpha |-> Lit(-274, 100),
    C_m_q |-> Lit(-3821, 100), C_m_delta_e |-> Lit(-99, 100),
    C_Y_0 |-> 0, C_Y_beta |-> Lit(-98, 100), C_Y_p |-> 0, C_Y_r |-> 0,
    C_Y_delta_a |-> Lit(75, 1000), C_Y_delta_r |-> Lit(19, 100),
    C_ell_0 |-> 0, C_ell_beta |-> Lit(-13, 100), C_ell_p |-> Lit(-51, 100),
    C_ell_delta_a |-> Lit(17, 100), C_ell_delta_r |-> Lit(24, 10000),
    C_n_0 |-> 0, C_n_beta |-> Lit(73, 1000), C_n_p |-> Lit(69, 1000),
    C_n_delta_a |-> Lit(-11, 1000), C_n_delta_r |-> Lit(-69, 1000),
    D_prop |-> 2 * SCALE, KQ |-> Lit(5, 10), R_motor |-> Lit(5, 10),
    i0 |-> Lit(15, 10), V_max |-> Lit(444, 10),
    C_Q2 |-> Lit(-17, 1000), C_Q1 |-> Lit(5, 1000), C_Q0 |-> Lit(5, 100),
    C_T2 |-> Lit(-108, 1000), C_T1 |-> Lit(-60, 1000), C_T0 |-> Lit(94, 1000)
]

\* tools.rotations.Quaternion2Rotation: body frame to inertial frame
Quaternion2Rotation(q) ==
    LET e0 == q[1]  e1 == q[2]  e2 == q[3]  e3 == q[4]
        sq(x) == Mul(x, x)
        two(x, y) == Mul(2 * SCALE, Mul(x, y))
    IN << << Sub(Sub(Add(sq(e1), sq(e0)), sq(e2)), sq(e3)),
             Sub(two(e1, e2), two(e3, e0)),
             Add(two(e1, e3), two(e2, e0)) >>,
          << Add(two(e1, e2), two(e3, e0)),
             Sub(Sub(Add(sq(e2), sq(e0)), sq(e1)), sq(e3)),
             Sub(two(e2, e3), two(e1, e0)) >>,
          << Sub(two(e1, e3), two(e2, e0)),
             Add(two(e2, e3), two(e1, e0)),
             Sub(Sub(Add(sq(e3), sq(e0)), sq(e1)), sq(e2)) >> >>

\* tools.rotations.Quaternion2Euler: <<phi, theta, psi>>
Quaternion2Euler(q) ==
    LET e0 == q[1]  e1 == q[2]  e2 == q[3]  e3 == q[4]
        sq(x) == Mul(x, x)
        two(x) == Mul(2 * SCALE, x)
    IN << ArcTan2(two(Add(Mul(e0, e1), Mul(e2, e3))),
                  Sub(Sub(Add(sq(e0), sq(e3)), sq(e1)), sq(e2))),
          ArcSin(two(Sub(Mul(e0, e2), Mul(e1, e3)))),
          ArcTan2(two(Add(Mul(e0, e3), Mul(e1, e2))),
                  Sub(Sub(Add(sq(e0), sq(e1)), sq(e2)), sq(e3))) >>

\* tools.rotations.Euler2Quaternion at the driver's only argument, (0, 0, 0)
Euler2QuaternionZero == <<SCALE, 0, 0, 0>>

\* message_types.msg_state.MsgState(): every field zero
MsgState == [north |-> 0, east |-> 0, altitude |-> 0, Va |-> 0, alpha |-> 0,
             beta |-> 0, phi |-> 0, theta |-> 0, psi |-> 0, Vg |-> 0,
             gamma |-> 0, chi |-> 0, p |-> 0, q |-> 0, r |-> 0,
             wn |-> 0, we |-> 0]

Quat(x) == <<x[7], x[8], x[9], x[10]>>
BodyVel(x) == <<x[4], x[5], x[6]>>

----------------------------------------------------------------------------
(* Private functions of MavDynamics.  An intermediate value that is used   *)
(* more than once is passed as a parameter of a local operator.            *)

\* _derivatives(state, forces_moments): xdot = f(x, u)
Derivatives(state, forces_moments) ==
    LET u == state[4]   v == state[5]   w == state[6]
        p == state[11]  q == state[12]  r == state[13]
        fx == forces_moments[1]  fy == forces_moments[2]  fz == forces_moments[3]
        l == forces_moments[4]   m == forces_moments[5]   n == forces_moments[6]
        quaternion == Quat(state)
        invMass == Div(SCALE, MAV.mass)
        \* position dynamics
        u_dot == Add(Sub(Mul(r, v), Mul(q, w)), Mul(invMass, fx))
        v_dot == Add(Sub(Mul(p, w), Mul(r, u)), Mul(invMass, fy))
        w_dot == Add(Sub(Mul(q, u), Mul(p, v)), Mul(invMass, fz))
        \* rotational kinematics: 0.5 * skew_sym @ quaternion
        half == Lit(1, 2)
        row(a, b, c, d) ==
            Add(Add(Add(Mul(Mul(half, a), quaternion[1]), Mul(Mul(half, b), quaternion[2])),
                    Mul(Mul(half, c), quaternion[3])),
                Mul(Mul(half, d), quaternion[4]))
        \* rotational dynamics
        p_dot == Add(Add(Sub(Mul(Mul(MAV.gamma1, p), q), Mul(Mul(MAV.gamma2, q), r)),
                         Mul(MAV.gamma3, l)), Mul(MAV.gamma4, n))
        q_dot == Add(Sub(Mul(Mul(MAV.gamma5, p), r),
                         Mul(MAV.gamma6, Sub(Mul(p, p), Mul(r, r)))),
                     Mul(Div(SCALE, MAV.Jy), m))
        r_dot == Add(Add(Sub(Mul(Mul(MAV.gamma7, p), q), Mul(Mul(MAV.gamma1, q), r)),
                         Mul(MAV.gamma4, l)), Mul(MAV.gamma8, n))
        \* position kinematics: pos_dot = Rb_i @ [u, v, w]
        x_dot(pos_dot) ==
            << pos_dot[1], pos_dot[2], pos_dot[3], u_dot, v_dot, w_dot,
               row(0, Neg(p), Neg(q), Neg(r)), row(p, 0, r, Neg(q)),
               row(q, Neg(r), 0, p), row(r, q, Neg(p), 0),
               p_dot, q_dot, r_dot >>
    IN x_dot(MatVec(Quaternion2Rotation(quaternion), <<u, v, w>>))

\* the matrix _update_velocity_data applies to the steady wind (line 168)
WindRotation(quaternion) == Quaternion2Rotation(quaternion)

\* C5, mutant: the division wr/ur guarded by the airspeed test
AlphaGuardOnAirspeed(ur, vr, wr, Va) == Va = 0

\* the test that guards the division wr/ur (line 178)
AlphaGuard(ur, vr, wr, Va) == ur = 0

\* the test that guards the division vr/Va (line 183)
BetaGuard(ur, vr, wr, Va) == Va = 0

\* lines 176-186 of _update_velocity_data; divs is the set of divisions
\* the call performed
AirData(v_air, Va, wind_body_frame, x, wind) ==
    LET ur == v_air[1]  vr == v_air[2]  wr == v_air[3]
        alphaZero == AlphaGuard(ur, vr, wr, Va)
        betaZero == BetaGuard(ur, vr, wr, Va)
    IN [ Va |-> Va,
         alpha |-> IF alphaZero THEN 0 ELSE ArcTan(Div(wr, ur)),
         beta |-> IF betaZero THEN 0 ELSE ArcSin(Div(vr, Va)),
         divs |-> (IF alphaZero THEN {} ELSE {"wr/ur"})
                      \cup (IF betaZero THEN {} ELSE {"vr/Va"}),
         wind_body_frame |-> wind_body_frame,
         v_air |-> v_air, x |-> x, wind |-> wind ]

\* _update_velocity_data(wind) on state vector x: the new _Va, _alpha, _beta
\* and the locals of the call
UpdateVelocityData(x, wind) ==
    LET steady_state == SubSeq(wind, 1, 3)
        gust == SubSeq(wind, 4, 6)
        rest(wind_body_frame) ==
            LET airData(v_air) == AirData(v_air, Norm3(v_air), wind_body_frame, x, wind)
            IN airData(VecSub(BodyVel(x), wind_body_frame))
    IN rest(VecAdd(MatVec(WindRotation(Quat(x)), steady_state), gust))

TWO_PI_SQ == Mul(Mul(2 * SCALE, PI), Mul(2 * SCALE, PI))

\* the constant term c of the motor-speed quadratic (line 252)
MotorC(Va, V_in) ==
    Add(Sub(Mul(Mul(Mul(MAV.C_Q2, MAV.rho), Pow(MAV.D_prop, 3)), Mul(Va, Va)),
            Div(MAV.KQ, MAV.R_motor)),
        Mul(MAV.KQ, MAV.i0))

\* lines 257-268, from the operating speed on
MotorOutput(Va, delta_t, V_in, Omega_op) ==
    LET coeffs(J_op, n2) ==
            [ thrust_prop |->
                  Mul(Mul(Mul(MAV.rho, n2), Pow(MAV.D_prop, 4)),
                      Add(Add(Mul(MAV.C_T2, Mul(J_op, J_op)), Mul(MAV.C_T1, J_op)),
                          MAV.C_T0)),
              torque_prop |->
                  Mul(Mul(Mul(MAV.rho, n2), Pow(MAV.D_prop, 5)),
                      Add(Add(Mul(MAV.C_Q2, Mul(J_op, J_op)), Mul(MAV.C_Q1, J_op)),
                          MAV.C_Q0)),
              Va |-> Va, delta_t |-> delta_t, V_in |-> V_in, Omega_op |-> Omega_op ]
        square(n) == Mul(n, n)
    IN coeffs(Div(Mul(Mul(2 * SCALE, PI), Va), Mul(Omega_op, MAV.D_prop)),
              square(Div(Omega_op, Mul(2 * SCALE, PI))))

\* _motor_thrust_torque(Va, delta_t): the returned pair and the locals
MotorThrustTorque(Va, delta_t) ==
    LET V_in == Mul(MAV.V_max, delta_t)
        a == Div(Mul(Mul(MAV.C_Q0, MAV.rho), Pow(MAV.D_prop, 5)), TWO_PI_SQ)
        solve(b, c) ==
            Div(Add(Neg(b), Sqrt(Sub(Mul(b, b), Mul(Mul(4 * SCALE, a), c)))),
                Mul(2 * SCALE, a))
    IN MotorOutput(Va, delta_t, V_in,
           solve(Add(Div(Mul(Mul(Mul(MAV.C_Q1, MAV.rho), Pow(MAV.D_prop, 4)), Va),
                         TWO_PI_SQ),
                     Div(Mul(MAV.KQ, MAV.KQ), MAV.R_motor)),
                 MotorC(Va, V_in)))

\* the blending function sigma (lines 200-202)
Sigma(alpha) ==
    LET blend(eNeg, ePos) ==
            Div(Add(Add(SCALE, eNeg), ePos), Mul(Add(SCALE, eNeg), Add(SCALE, ePos)))
    IN blend(Exp(Mul(Neg(MAV.M), Sub(alpha, MAV.alpha0))),
             Exp(Mul(MAV.M, Add(alpha, MAV.alpha0))))

\* CL (line 213)
LiftCoefficient(alpha, sigma, sinAlpha) ==
    Add(Mul(Sub(SCALE, sigma), Add(MAV.C_L_0, Mul(MAV.C_L_alpha, alpha))),
        Mul(Mul(Mul(Mul(sigma, 2 * SCALE), Sign(alpha)), Mul(sinAlpha, sinAlpha)),
            Cos(alpha)))

\* CD (line 214)
DragCoefficient(alpha) ==
    LET polar(lin) == Add(MAV.C_D_p, Div(Mul(lin, lin), Mul(Mul(PI, MAV.e), MAV.AR)))
    IN polar(Add(MAV.C_L_0, Mul(MAV.C_L_alpha, alpha)))

\* q_dynamic (line 217)
DynamicPressure(Va) == Mul(Mul(Mul(Lit(1, 2), MAV.rho), Mul(Va, Va)), MAV.S_wing)

\* F_lift (line 218)
LiftForce(q_dynamic, CL, Va, q, elevator) ==
    Mul(q_dynamic,
        Add(Mul(CL, Mul(Div(Mul(Mul(MAV.C_L_q, Lit(1, 2)), MAV.c), Va), q)),
            Mul(MAV.C_L_delta_e, elevator)))

\* F_drag (line 219)
DragForce(q_dynamic, CD, Va, q, elevator) ==
    Mul(q_dynamic,
        Add(Mul(CD, Mul(Div(Mul(Mul(MAV.C_D_q, Lit(1, 2)), MAV.c), Va), q)),
            Mul(MAV.C_D_delta_e, elevator)))

\* f_g (lines 205-210): an elementwise (broadcast) product, 3 x 3
GravityTerm(Rb_i) ==
    LET g == <<0, 0, Mul(MAV.mass, MAV.gravity)>>
    IN [i \in 1..3 |-> [j \in 1..3 |-> Mul(Rb_i[i][j], g[i])]]

\* the body-frame force <<fx, fy, fz>> that _forces_moments stores and
\* returns (lines 225-229, 238-241), given the aerodynamic terms, the
\* gravity term f_g and the propeller thrust it has computed
NetForce(F_lift, F_drag, sinAlpha, cosAlpha, fy, f_g, thrust_prop) ==
    << Add(Mul(Neg(F_drag), cosAlpha), Mul(F_lift, sinAlpha)),
       fy,
       Sub(Mul(Neg(F_drag), sinAlpha), Mul(F_lift, cosAlpha)) >>

\* fy (line 229)
SideForce(q_dynamic, beta, p, r, Va, delta) ==
    Mul(q_dynamic,
        Add(Add(Add(Add(Add(MAV.C_Y_0, Mul(MAV.C_Y_beta, beta)),
                        Div(Mul(Mul(Mul(MAV.C_Y_p, Lit(1, 2)), MAV.b), p), Va)),
                    Div(Mul(Mul(Mul(MAV.C_Y_r, Lit(1, 2)), MAV.b), r), Va)),
                Mul(MAV.C_Y_delta_a, delta.aileron)),
            Mul(MAV.C_Y_delta_r, delta.rudder)))

\* My, Mx, Mz (lines 232-236)
Moments(q_dynamic, alpha, beta, q, r, Va, delta) ==
    << Mul(Mul(q_dynamic, MAV.b),
           Add(Add(Add(Add(MAV.C_ell_0, Mul(MAV.C_ell_beta, beta)),
                       Div(Mul(Mul(Mul(MAV.C_ell_p, Lit(1, 2)), MAV.b), r), Va)),
                   Mul(MAV.C_ell_delta_a, delta.aileron)),
               Mul(MAV.C_ell_delta_r, delta.rudder))),
       Mul(Mul(q_dynamic, MAV.c),
           Add(Add(Add(MAV.C_m_0, Mul(MAV.C_m_alpha, alpha)),
                   Div(Mul(Mul(Mul(MAV.C_m_q, MAV.c), Lit(1, 2)), q), Va)),
               Mul(MAV.C_m_delta_e, delta.elevator))),
       Mul(Mul(q_dynamic, MAV.b),
           Add(Add(Add(Add(MAV.C_n_0, Mul(MAV.C_n_beta, beta)),
                       Div(Mul(Mul(Mul(MAV.C_n_p, Lit(1, 2)), MAV.b), r), Va)),
                   Mul(MAV.C_n_delta_a, delta.aileron)),
               Mul(MAV.C_n_delta_r, delta.rudder))) >>

\* _forces_moments(delta) of an instance with fields self on state vector x:
\* the returned 6-vector ret and the locals
ForcesMoments(self, x, delta) ==
    LET p == x[11]  q == x[12]  r == x[13]
        Va == self.Va  alpha == self.alpha  beta == self.beta
        result(q_dynamic, CL, CD, sinAlpha, cosAlpha, motor, f_g) ==
            LET collect(F_lift, F_drag, f, M) ==
                    [ ret |-> <<f[1], f[2], f[3], M[1], M[2], M[3]>>,
                      q_dynamic |-> q_dynamic, CL |-> CL, CD |-> CD,
                      F_lift |-> F_lift, F_drag |-> F_drag, fy |-> f[2],
                      sinAlpha |-> sinAlpha, cosAlpha |-> cosAlpha,
                      Va |-> Va, alpha |-> alpha, q |-> q,
                      elevator |-> delta.elevator,
                      quaternion |-> Quat(x), f_g |-> f_g, motor |-> motor ]
                forces(F_lift, F_drag) ==
                    collect(F_lift, F_drag,
                            NetForce(F_lift, F_drag, sinAlpha, cosAlpha,
                                     SideForce(q_dynamic, beta, p, r, Va, delta),
                                     f_g, motor.thrust_prop),
                            Moments(q_dynamic, alpha, beta, q, r, Va, delta))
            IN forces(LiftForce(q_dynamic, CL, Va, q, delta.elevator),
                      DragForce(q_dynamic, CD, Va, q, delta.elevator))
        coefficients(sinAlpha) ==
            result(DynamicPressure(Va),
                   LiftCoefficient(alpha, Sigma(alpha), sinAlpha),
                   DragCoefficient(alpha), sinAlpha, Cos(alpha),
                   MotorThrustTorque(Va, delta.throttle),
                   GravityTerm(Quaternion2Rotation(Quat(x))))
    IN coefficients(Sin(alpha))

\* lines 273-291 of _update_true_state
TrueState(self, x, euler, pdot, Vg) ==
    [ north |-> x[1], east |-> x[2], altitude |-> Neg(x[3]),
      Va |-> self.Va, alpha |-> self.alpha, beta |-> self.beta,
      phi |-> euler[1], theta |-> euler[2], psi |-> euler[3],
      Vg |-> Vg, gamma |-> ArcSin(Div(pdot[3], Vg)),
      chi |-> ArcTan2(pdot[2], pdot[1]),
      p |-> x[11], q |-> x[12], r |-> x[13],
      wn |-> self.wind[1], we |-> self.wind[2] ]

\* _update_true_state() of an instance with fields self on state vector x
UpdateTrueState(self, x) ==
    LET derive(pdot) == TrueState(self, x, Quaternion2Euler(Quat(x)), pdot, Norm3(pdot))
    IN derive(MatVec(Quaternion2Rotation(Quat(x)), BodyVel(x)))

----------------------------------------------------------------------------
(* update(delta, wind), block by block.  A frame holds what the call works *)
(* on: the instance's fields (self), the contents x of the array _state    *)
(* refers to, the arguments, the locals, and the trace of the calls made.  *)

StoreForces(f, loc) ==
    [f EXCEPT !.forces_moments = loc.ret,
              !.fm = loc,
              !.self.forces = SubSeq(loc.ret, 1, 3),
              !.trace = Append(@, <<"_forces_moments", f.x>>)]

\* line 67: forces_moments = self._forces_moments(delta)
StepForces(f) == StoreForces(f, ForcesMoments(f.self, f.x, f.delta))

RK4Combine(x, h6, k1, k2, k3, k4) ==
    VecAdd(x, VecScale(h6,
        VecAdd(VecAdd(VecAdd(k1, VecScale(2 * SCALE, k2)), VecScale(2 * SCALE, k3)), k4)))

\* lines 70-75: k1..k4 and the new contents of the array
RK4(x, time_step, fm) ==
    LET s4(k1, k2, k3) ==
            RK4Combine(x, Div(time_step, 6 * SCALE), k1, k2, k3,
                       Derivatives(VecAdd(x, VecScale(time_step, k3)), fm))
        s3(k1, k2) ==
            s4(k1, k2, Derivatives(VecAdd(x, VecScale(Div(time_step, 2 * SCALE), k2)), fm))
        s2(k1) ==
            s3(k1, Derivatives(VecAdd(x, VecScale(Div(time_step, 2 * SCALE), k1)), fm))
    IN s2(Derivatives(x, fm))

\* lines 70-75: the Runge-Kutta step, in place on the array
StepRK4(f) ==
    LET fm == f.forces_moments
    IN [f EXCEPT !.x = RK4(f.x, f.self.ts, fm),
                 !.trace = @ \o << <<"_derivatives", fm>>, <<"_derivatives", fm>>,
                                   <<"_derivatives", fm>>, <<"_derivatives", fm>>,
                                   <<"advance", f.x>> >>]

\* C1, mutant: normE without the last quaternion component
NormEWithoutE3(x) ==
    Sqrt(Add(Add(Mul(x[7], x[7]), Mul(x[8], x[8])), Mul(x[9], x[9])))

\* line 82: normE
NormE(x) ==
    Sqrt(Add(Add(Add(Mul(x[7], x[7]), Mul(x[8], x[8])), Mul(x[9], x[9])), Mul(x[10], x[10])))

\* lines 83-86: divide the quaternion by normE, in place
DivideQuaternion(x, normE) ==
    [j \in 1..13 |-> IF j \in 7..10 THEN Div(x[j], normE) ELSE x[j]]

\* lines 78-86: normalize the quaternion
StepNormalize(f) ==
    LET store(normE) ==
            [f EXCEPT !.x = DivideQuaternion(f.x, normE),
                      !.normE = normE,
                      !.trace = Append(@, <<"normalize", f.x>>)]
    IN store(NormE(f.x))

StoreAir(f, vd) ==
    [f EXCEPT !.self.Va = vd.Va, !.self.alpha = vd.alpha, !.self.beta = vd.beta,
              !.air = vd,
              !.trace = Append(@, <<"_update_velocity_data", f.x, f.wind>>)]

\* line 89: self._update_velocity_data(wind)
StepVelocity(f) == StoreAir(f, UpdateVelocityData(f.x, f.wind))

\* line 92: self._update_true_state()
StepTrueState(f) ==
    [f EXCEPT !.self.true_state = UpdateTrueState(f.self, f.x),
              !.trace = Append(@, <<"_update_true_state", f.x>>)]

\* C8, mutant: the true state derived before the air data are recomputed
UpdateBodyTrueStateFirst(f) ==
    StepVelocity(StepTrueState(StepNormalize(StepRK4(StepForces(f)))))

\* C10, mutant: the air data recomputed from this call's wind before the
\* forces are evaluated
UpdateBodyAirDataFirst(f) ==
    StepTrueState(StepNormalize(StepRK4(StepForces(StepVelocity(f)))))

\* the body of update, lines 67-92
UpdateBody(f) == StepTrueState(StepVelocity(StepNormalize(StepRK4(StepForces(f)))))

----------------------------------------------------------------------------
(* The state machine.                                                      *)

Inst == {"A", "B"}
\* the arrays the constructors allocate for _state, and the caller's arrays
Own == [A |-> "sA", B |-> "sB"]
CallerArrays == {"c1", "c2", "c3"}
Arrays == {"sA", "sB"} \cup CallerArrays

\* the number of calls (update, external_set_state, runCalc) explored
MaxOps == 2

\* Ts, the constructor's argument (line 301)
Ts == Lit(1, 100)

ZeroWind == <<0, 0, 0, 0, 0, 0>>

\* the arguments of update: controls (aileron, elevator, rudder, throttle)
\* and wind (steady NED wind, then gust)
UpdateInputs == {
    << [aileron |-> 0, elevator |-> 0, rudder |-> 0, throttle |-> 0], ZeroWind >>,
    << [aileron |-> 0, elevator |-> 0, rudder |-> 0, throttle |-> SCALE],
       <<3 * SCALE, 4 * SCALE, 0, 0, 0, SCALE>> >>,
    << [aileron |-> Lit(1, 10), elevator |-> Lit(-2, 10), rudder |-> Lit(5, 100),
        throttle |-> Lit(1, 2)],
       <<3 * SCALE, 4 * SCALE, 0, 0, 0, SCALE>> >>,
    << [aileron |-> 0, elevator |-> 0, rudder |-> 0, throttle |-> 0],
       <<0, 0, 0, 0, 0, SCALE>> >> }

\* what the caller's arrays hold: c1 at rest with a yawed attitude; c2
\* moving and rotating, its quaternion not of unit norm; c3 = np.zeros
CallerInit == [
    c1 |-> <<0, 0, -100 * SCALE, 0, 0, 0,
             Lit(6, 10), 0, 0, Lit(8, 10), 0, 0, 0>>,
    c2 |-> <<SCALE, 2 * SCALE, -50 * SCALE, 8 * SCALE, SCALE, 2 * SCALE,
             2 * SCALE, 0, SCALE, 0, Lit(1, 10), Lit(2, 10), Lit(-1, 10)>>,
    c3 |-> <<0, 0, 0, 0, 0, 0, 0, 0, 0, 0, 0, 0, 0>> ]

\* the driver's scenarios, lines 305-350: <<u0, v0, w0>> and wind
Scenarios == <<
    << <<0, 0, 0>>,         <<0, 0, 0, 0, 0, 0>> >>,
    << <<SCALE, 0, 0>>,     <<0, 0, 0, 0, 0, 0>> >>,
    << <<SCALE, SCALE, 0>>, <<0, 0, 0, 0, 0, 0>> >>,
    << <<SCALE, 0, SCALE>>, <<0, 0, 0, 0, 0, 0>> >>,
    << <<0, 0, 0>>,         <<SCALE, 0, 0, 0, 0, 0>> >>,
    << <<0, 0, 0>>,         <<SCALE, SCALE, 0, 0, 0, 0>> >>,
    << <<0, 0, 0>>,         <<SCALE, 0, SCALE, 0, 0, 0>> >>,
    << <<SCALE, 0, 0>>,     <<SCALE, 0, 0, 0, 0, 0>> >>,
    << <<0, 0, 0>>,         <<3 * SCALE, 4 * SCALE, 0, 0, 0, 0>> >>,
    << <<0, 4 * SCALE, 0>>, <<3 * SCALE, 4 * SCALE, 0, 0, 0, 0>> >> >>

\* the instance the driver constructs (line 302)
DriverInst == "A"

VARIABLES
    heap,   \* the contents of every array
    mav,    \* the fields of each MavDynamics instance; state is a reference
    last,   \* per instance: the frame of its last update call at its return
    air,    \* per instance: the locals of its last _update_velocity_data
    nops    \* the number of calls made

vars == <<heap, mav, last, air, nops>>

InitialState == <<MAV.north0, MAV.east0, MAV.down0, MAV.u0, MAV.v0, MAV.w0,
                  MAV.e0, MAV.e1, MAV.e2, MAV.e3, MAV.p0, MAV.q0, MAV.r0>>

\* __init__(Ts), lines 23-55: _update_velocity_data() runs on the initial
\* state, then _Va, _alpha and _beta are overwritten
Construct(i) ==
    [ ts |-> Ts, state |-> Own[i], wind |-> Zero3, forces |-> Zero3,
      Va |-> MAV.u0, alpha |-> 0, beta |-> 0, true_state |-> MsgState ]

NoFrame == [ self |-> Construct("A"), x |-> InitialState,
             delta |-> [aileron |-> 0, elevator |-> 0, rudder |-> 0, throttle |-> 0],
             wind |-> ZeroWind,
             forces_moments |-> <<0, 0, 0, 0, 0, 0>>, fm |-> <<>>, normE |-> 0,
             air |-> <<>>, trace |-> <<>>, pre |-> <<>>, done |-> FALSE ]

Init ==
    /\ heap = [a \in Arrays |-> IF a \in CallerArrays THEN CallerInit[a] ELSE InitialState]
    /\ mav = [i \in Inst |-> Construct(i)]
    /\ last = [i \in Inst |-> NoFrame]
    /\ air = [i \in Inst |-> UpdateVelocityData(InitialState, ZeroWind)]
    /\ nops = 0

\* the frame at the entry of update(delta, wind) on an instance with fields
\* self whose array holds x
Call(self, x, delta, wind) ==
    [NoFrame EXCEPT !.self = self, !.x = x, !.delta = delta, !.wind = wind,
                    !.pre = <<x, self>>, !.done = TRUE]

\* update(delta, wind) on instance i, lines 59-92
Update(i, delta, wind) ==
    /\ nops < MaxOps
    /\ LET return(f) ==
               /\ heap' = [heap EXCEPT ![mav[i].state] = f.x]
               /\ mav' = [mav EXCEPT ![i] = f.self]
               /\ last' = [last EXCEPT ![i] = f]
               /\ air' = [air EXCEPT ![i] = f.air]
       IN return(UpdateBody(Call(mav[i], heap[mav[i].state], delta, wind)))
    /\ nops' = nops + 1

\* external_set_state(new_state) on instance i, lines 94-95
ExternalSetState(i, new_state) ==
    /\ nops < MaxOps
    /\ mav' = [mav EXCEPT ![i].state = new_state]
    /\ nops' = nops + 1
    /\ UNCHANGED <<heap, last, air>>

\* runCalc() of the driver, lines 309-317, under scenario k's globals
RunCalc(k) ==
    /\ nops < MaxOps
    /\ LET i == DriverInst
           vel == Scenarios[k][1]
           wind == Scenarios[k][2]
           x == [j \in 1..13 |->
                    IF j \in 7..10 THEN Euler2QuaternionZero[j - 6]
                    ELSE IF j \in 4..6 THEN vel[j - 3]
                    ELSE heap[mav[i].state][j]]
           derive(self) == [self EXCEPT !.true_state = UpdateTrueState(self, x)]
           return(vd) ==
               /\ heap' = [heap EXCEPT ![mav[i].state] = x]
               /\ mav' = [mav EXCEPT ![i] =
                             derive([mav[i] EXCEPT !.Va = vd.Va, !.alpha = vd.alpha,
                                                   !.beta = vd.beta])]
               /\ air' = [air EXCEPT ![i] = vd]
       IN return(UpdateVelocityData(x, wind))
    /\ nops' = nops + 1
    /\ UNCHANGED last

Next ==
    \/ \E i \in Inst, in \in UpdateInputs : Update(i, in[1], in[2])
    \/ \E i \in Inst, a \in CallerArrays : ExternalSetState(i, a)
    \/ \E k \in 1..Len(Scenarios) : RunCalc(k)

Spec == Init /\ [][Next]_vars

\* the public operations alone
NextPublic ==
    \/ \E i \in Inst, in \in UpdateInputs : Update(i, in[1], in[2])
    \/ \E i \in Inst, a \in CallerArrays : ExternalSetState(i, a)

SpecPublic == Init /\ [][NextPublic]_vars

----------------------------------------------------------------------------
(* The claims.  last[i] is the frame of instance i's latest update at its  *)
(* return, air[i] the locals of its latest _update_velocity_data.          *)

\* the rounding allowed on a norm, in units of 1 / SCALE
NormTol == 3

NearOne(n) == Finite(n) /\ n - SCALE <= NormTol /\ SCALE - n <= NormTol
UnitQuaternion(x) ==
    NearOne(Sqrt(Add(Add(Add(Mul(x[7], x[7]), Mul(x[8], x[8])), Mul(x[9], x[9])),
                     Mul(x[10], x[10]))))

\* C1 as stated: whatever update and external_set_state calls came before,
\* the attitude quaternion has norm 1 when update returns
QuaternionUnitAfterUpdate ==
    \A i \in Inst : last[i].done => UnitQuaternion(last[i].x)

\* C1, amended: when update returns, the attitude quaternion has norm 1
\* provided the norm normE that update computed from the integrated
\* quaternion is finite and not zero
QuaternionUnitWhenNormalizable ==
    \A i \in Inst :
        (last[i].done /\ Finite(last[i].normE) /\ last[i].normE # 0)
            => UnitQuaternion(last[i].x)

\* C1, witness: an update has normalized a quaternion whose norm was far
\* from 1
NormalizedNonUnitQuaternion ==
    \E i \in Inst :
        /\ last[i].done
        /\ Finite(last[i].normE)
        /\ last[i].normE > 2 * SCALE
        /\ UnitQuaternion(last[i].x)

\* C2: when update returns, true_state.wn and true_state.we are the north
\* and east components of the steady wind passed to that call
TrueStateWindIsCallWind ==
    \A i \in Inst :
        last[i].done =>
            /\ last[i].self.true_state.wn = last[i].wind[1]
            /\ last[i].self.true_state.we = last[i].wind[2]

\* C3: the force _forces_moments returns, and update passes to
\* _derivatives, is the aerodynamic force plus the gravity vector
\* (0, 0, mass * gravity) rotated into the body frame by the attitude
NetForceIncludesGravity ==
    \A i \in Inst :
        last[i].done =>
            /\ last[i].trace[2][2] = last[i].fm.ret
            /\ SubSeq(last[i].fm.ret, 1, 3) =
                   VecAdd(<< Add(Mul(Neg(last[i].fm.F_drag), last[i].fm.cosAlpha),
                                 Mul(last[i].fm.F_lift, last[i].fm.sinAlpha)),
                             last[i].fm.fy,
                             Sub(Mul(Neg(last[i].fm.F_drag), last[i].fm.sinAlpha),
                                 Mul(last[i].fm.F_lift, last[i].fm.cosAlpha)) >>,
                          MatVec(Transpose(Quaternion2Rotation(last[i].fm.quaternion)),
                                 <<0, 0, Mul(MAV.mass, MAV.gravity)>>))

\* C4: an update on one instance changes neither the array another
\* instance's state refers to nor any array the caller holds
UpdateKeepsOtherArrays ==
    [][\A i \in Inst :
           last'[i] # last[i] =>
               \A a \in Arrays :
                   (a \in CallerArrays \/ \E j \in Inst \ {i} : mav[j].state = a)
                       => heap'[a] = heap[a]]_vars

\* C5 as stated: _update_velocity_data sets alpha to 0 when ur is 0 and
\* beta to 0 when Va is 0, in neither case performing the division; zero
\* body velocity under zero wind gives Va = alpha = beta = 0
AirDataGuards ==
    \A i \in Inst :
        /\ mav[i].Va = air[i].Va /\ mav[i].alpha = air[i].alpha
        /\ mav[i].beta = air[i].beta
        /\ air[i].v_air[1] = 0 => (mav[i].alpha = 0 /\ "wr/ur" \notin air[i].divs)
        /\ air[i].Va = 0 => (mav[i].beta = 0 /\ "vr/Va" \notin air[i].divs)
        /\ (BodyVel(air[i].x) = Zero3 /\ air[i].wind = ZeroWind)
               => (mav[i].Va = 0 /\ mav[i].alpha = 0 /\ mav[i].beta = 0)

\* C5, amended: as above, the zero-motion case holding when the rotation
\* matrix of the attitude has finite entries
AirDataGuardsFiniteAttitude ==
    \A i \in Inst :
        /\ mav[i].Va = air[i].Va /\ mav[i].alpha = air[i].alpha
        /\ mav[i].beta = air[i].beta
        /\ air[i].v_air[1] = 0 => (mav[i].alpha = 0 /\ "wr/ur" \notin air[i].divs)
        /\ air[i].Va = 0 => (mav[i].beta = 0 /\ "vr/Va" \notin air[i].divs)
        /\ (BodyVel(air[i].x) = Zero3 /\ air[i].wind = ZeroWind
            /\ \A r \in 1..3 : VecFinite(WindRotation(Quat(air[i].x))[r]))
               => (mav[i].Va = 0 /\ mav[i].alpha = 0 /\ mav[i].beta = 0)

\* C5, witness: air data were computed with ur = 0 while wr and Va were not 0
ZeroLongitudinalAirspeed ==
    \E i \in Inst :
        /\ air[i].v_air[1] = 0
        /\ Finite(air[i].v_air[3]) /\ air[i].v_air[3] # 0
        /\ Finite(air[i].Va) /\ air[i].Va # 0
        /\ mav[i].alpha = 0

\* C6: the matrix _update_velocity_data applies to the steady wind is the
\* transpose of the body-to-inertial matrix _derivatives applies to the body
\* velocity; the gust is added unrotated and the relative wind is the body
\* velocity minus that sum
WindRotatedIntoBodyFrame ==
    \A i \in Inst :
        /\ air[i].wind_body_frame =
               VecAdd(MatVec(Transpose(Quaternion2Rotation(Quat(air[i].x))),
                             SubSeq(air[i].wind, 1, 3)),
                      SubSeq(air[i].wind, 4, 6))
        /\ air[i].v_air = VecSub(BodyVel(air[i].x), air[i].wind_body_frame)

\* C7: at a fixed airspeed the thrust _motor_thrust_torque returns is
\* non-decreasing in the throttle, which enters the solve through V_in: two
\* calls with different voltages solve for different operating speeds
ThrustMonotoneInThrottle ==
    \A i, j \in Inst :
        (/\ last[i].done /\ last[j].done
         /\ last[i].fm.motor.Va = last[j].fm.motor.Va
         /\ Finite(last[i].fm.motor.thrust_prop)
         /\ Finite(last[j].fm.motor.thrust_prop)
         /\ last[i].fm.motor.delta_t <= last[j].fm.motor.delta_t)
            => /\ last[i].fm.motor.V_in = Mul(MAV.V_max, last[i].fm.motor.delta_t)
               /\ last[i].fm.motor.thrust_prop <= last[j].fm.motor.thrust_prop
               /\ (last[i].fm.motor.V_in # last[j].fm.motor.V_in
                       => last[i].fm.motor.Omega_op # last[j].fm.motor.Omega_op)

\* the air data of state vector x under wind, as _update_velocity_data
\* computes them
AirDataAre(self, x, wind) ==
    LET same(vd) ==
            /\ self.Va = vd.Va /\ self.alpha = vd.alpha /\ self.beta = vd.beta
            /\ self.true_state.Va = vd.Va
            /\ self.true_state.alpha = vd.alpha
            /\ self.true_state.beta = vd.beta
    IN same(UpdateVelocityData(x, wind))

\* C8: within update the forces and moments are computed once, from the
\* pre-step state; the four derivative evaluations receive that vector; the
\* state is advanced, then the quaternion normalized; the air data are
\* recomputed once, from the post-step normalized state and this call's
\* wind; then the true state is derived, so that true_state.Va, alpha and
\* beta are the air data of the post-step state under this call's wind
UpdateStepOrder ==
    \A i \in Inst :
        last[i].done =>
            /\ [k \in 1..Len(last[i].trace) |-> last[i].trace[k][1]] =
                   << "_forces_moments", "_derivatives", "_derivatives",
                      "_derivatives", "_derivatives", "advance", "normalize",
                      "_update_velocity_data", "_update_true_state" >>
            /\ last[i].trace[1][2] = last[i].pre[1]
            /\ last[i].forces_moments =
                   ForcesMoments(last[i].pre[2], last[i].pre[1], last[i].delta).ret
            /\ \A k \in 2..5 : last[i].trace[k][2] = last[i].forces_moments
            /\ last[i].trace[6][2] = last[i].pre[1]
            /\ last[i].trace[7][2] =
                   RK4(last[i].pre[1], last[i].pre[2].ts, last[i].forces_moments)
            /\ last[i].x = DivideQuaternion(last[i].trace[7][2], last[i].normE)
            /\ last[i].trace[8] = <<"_update_velocity_data", last[i].x, last[i].wind>>
            /\ last[i].trace[9][2] = last[i].x
            /\ AirDataAre(last[i].self, last[i].x, last[i].wind)

\* C8, witness: an update under a steady wind has returned with air data
\* that differ from the ones it started with
UpdatedUnderWind ==
    \E i \in Inst :
        /\ last[i].done
        /\ last[i].wind[1] # 0
        /\ Finite(last[i].self.Va)
        /\ last[i].self.Va # last[i].pre[2].Va
        /\ last[i].self.true_state.Va = last[i].self.Va

\* C9: the lift force is the dynamic pressure times the sum of CL, the
\* pitch-rate term and the elevator term, and the drag force likewise
LiftIsSumOfTerms ==
    \A i \in Inst :
        last[i].done =>
            /\ last[i].fm.F_lift =
                   Mul(last[i].fm.q_dynamic,
                       Add(Add(last[i].fm.CL,
                               Mul(Div(Mul(Mul(MAV.C_L_q, Lit(1, 2)), MAV.c),
                                       last[i].fm.Va), last[i].fm.q)),
                           Mul(MAV.C_L_delta_e, last[i].fm.elevator)))
            /\ last[i].fm.F_drag =
                   Mul(last[i].fm.q_dynamic,
                       Add(Add(last[i].fm.CD,
                               Mul(Div(Mul(Mul(MAV.C_D_q, Lit(1, 2)), MAV.c),
                                       last[i].fm.Va), last[i].fm.q)),
                           Mul(MAV.C_D_delta_e, last[i].fm.elevator)))

SameSurfaces(d1, d2) ==
    /\ d1.aileron = d2.aileron
    /\ d1.elevator = d2.elevator
    /\ d1.rudder = d2.rudder

SameCondition(f1, f2) ==
    /\ f1.pre[1] = f2.pre[1]
    /\ f1.pre[2].ts = f2.pre[2].ts
    /\ f1.pre[2].Va = f2.pre[2].Va
    /\ f1.pre[2].alpha = f2.pre[2].alpha
    /\ f1.pre[2].beta = f2.pre[2].beta

\* C10: the state vector an update produces depends only on the pre-step
\* state, the cached air data and the aileron, elevator and rudder
\* commands: two instances in the same condition stepped with different
\* throttle or wind end with the same state vector, and so does the same
\* step taken with any other throttle and wind
StateIgnoresThrottleAndWind ==
    /\ \A i, j \in Inst :
           (/\ last[i].done /\ last[j].done
            /\ SameCondition(last[i], last[j])
            /\ SameSurfaces(last[i].delta, last[j].delta))
               => last[i].x = last[j].x
    /\ \A i \in Inst :
           last[i].done =>
               \A in \in UpdateInputs :
                   (SameSurfaces(in[1], last[i].delta)
                    /\ in # <<last[i].delta, last[i].wind>>)
                       => UpdateBody(Call(last[i].pre[2], last[i].pre[1],
                                          in[1], in[2])).x = last[i].x

\* C10, witness: two instances in the same condition have been stepped with
\* different throttle and different wind
SteppedWithDifferentThrottleAndWind ==
    \E i, j \in Inst :
        /\ last[i].done /\ last[j].done
        /\ SameCondition(last[i], last[j])
        /\ SameSurfaces(last[i].delta, last[j].delta)
        /\ last[i].delta.throttle # last[j].delta.throttle
        /\ last[i].wind # last[j].wind
        /\ VecFinite(last[i].x)

=============================================================================
